---- MODULE Spec2Model ----
(***************************************************************************)
(* A model of the STM external controller (R9Control, src/src/main.rs):   *)
(* the task queue (src/src/core/task.rs), the hand-off of a task to the   *)
(* Julia runtime (src/src/core/jlcontext.rs, src/src/core_async/          *)
(* stmimage.rs) and the message handlers of R9Control::update that touch  *)
(* them.                                                                   *)
(*                                                                         *)
(* The UI thread is one process: it is either in the event loop           *)
(* (pc = "loop"), inside the PlayPressed handler blocked in recv()        *)
(* (pc = "recv"), or gone because a handler panicked or ran out of memory *)
(* (pc = "aborted").  The Julia runtime is the second process: it takes   *)
(* the oldest submitted task and sends its result on that task's channel. *)
(*                                                                         *)
(* Voltages are whole volts (the spin boxes of the three voltage fields   *)
(* are bounded by [-5 V, 5 V]); a bias produced by linspace is kept as an *)
(* exact fraction num/den.  The fields of an STMImage other than bias are *)
(* copied from fields no modelled handler changes and are left out, as is *)
(* a task's description.                                                   *)
(*                                                                         *)
(* Message::TaskRunning(idx) has a handler (main.rs:160-163), but nothing *)
(* in the program constructs that message, so it is no step of the model. *)
(* Message::TaskMessage, TaskCompleted, TaskFailed, PausePressed and the  *)
(* other buttons fall to `_ => Command::none()` (main.rs:274).            *)
(*                                                                         *)
(* The second half models one ScientificSpinBox of the window             *)
(* (src/src/native/scientificspinbox.rs) with the text input it wraps     *)
(* (src/src/native/scientific_text_input.rs) and that input's cursor      *)
(* (src/src/native/scientific_text_input/cursor.rs).  An event is one     *)
(* step: on_event runs, the value it publishes is stored by               *)
(* R9Control::update, and view() rebuilds the widget from the stored      *)
(* value, so the widget's value and its displayed text are functions of   *)
(* the application's value, while the text input's State (focus, cursor)  *)
(* lives on in the widget tree.                                            *)
(*                                                                         *)
(* A text is a sequence of one-character strings, one per grapheme; this  *)
(* is what Value::new(text) holds and Value::len() counts (value.rs is    *)
(* not among the sources; every text here is ASCII save the typed         *)
(* character).  A significand is an exact decimal, in millionths: f64     *)
(* rounding is left out.  The micro prefix is written "u".  Button        *)
(* releases and redraw requests touch only fields that are not modelled.  *)
(*                                                                         *)
(* CursorSpec exercises the cursor on its own: select_left and            *)
(* select_right applied to a buffer drawn from a small set, the empty     *)
(* buffer among them, with the stored cursor kept when the buffer is      *)
(* exchanged.  A call that does not return ends the thread it runs on     *)
(* (pc = "aborted").                                                       *)
(***************************************************************************)
EXTENDS Integers, Sequences, FiniteSets, TLC

\* ---------------------------------------------------------------- bounds

\* The most tasks the model lets the operator add to the queue.
MaxTasks == 2

\* Voltages are drawn from 0..MaxVolt volts.
MaxVolt == 1

Volts == 0..MaxVolt

\* ------------------------------------------------------ program constants

\* RuntimeBuilder::channel_capacity(NonZeroUsize::new(2)) (jlcontext.rs:19):
\* how many submitted tasks the runtime's channel holds before try_task fails.
ChannelCapacity == 2

\* usize::MAX, kept symbolic: the result of `f64::INFINITY as usize`.
UsizeMax == -1

\* --------------------------------------------------------------- state

VARIABLES
    start_voltage,   \* R9Control.start_voltage, in volts
    stop_voltage,    \* R9Control.stop_voltage
    step_voltage,    \* R9Control.step_voltage
    tasks,           \* TaskList.tasks: Seq of [content, index, state]
    current_task,    \* TaskList.current_task: {} is None, {i} is Some(i)
    receiver,        \* JuliaContext.receiver: [some, buf], buf the channel's buffer
    inflight,        \* tasks handed to the Julia runtime and not yet run
    pc,              \* where the UI thread is: "loop", "recv" or "aborted"
    everStarted      \* history: PlayPressed has set some task Running

\* One ScientificSpinBox of the window (src/src/native/scientificspinbox.rs)
\* with the text input it wraps.
VARIABLES
    value,           \* ScientificSpinBox.value: [significand, exponent]
    bounds,          \* ScientificSpinBox.bounds: [lower, upper]
    unit,            \* ScientificSpinBox.unit, a sequence of characters
    cursor,          \* scientific_text_input::State.cursor, as stored
    is_focused,      \* scientific_text_input::State.is_focused is Some
    published,       \* the values the last event sent through on_change
    steps,           \* how many events have published a value
    buffer           \* graphemes of the Value a cursor operation is applied to

queueVars == <<start_voltage, stop_voltage, step_voltage, tasks, current_task,
               receiver, inflight, pc, everStarted>>

spinVars == <<value, bounds, unit, cursor, is_focused, published, steps,
              buffer>>

vars == <<start_voltage, stop_voltage, step_voltage, tasks, current_task,
          receiver, inflight, pc, everStarted,
          value, bounds, unit, cursor, is_focused, published, steps, buffer>>

\* ------------------------------------------------------------ TaskState

Idle == [tag |-> "Idle", reason |-> ""]
Running == [tag |-> "Running", reason |-> ""]
Completed == [tag |-> "Completed", reason |-> ""]
Failed(reason) == [tag |-> "Failed", reason |-> reason]

InterruptedByUser == "Interrupted by user."

\* ----------------------------------------------------------------- Task

\* Task::new(content, description, index)
TaskNew(content, index) == [content |-> content, index |-> index, state |-> Idle]

\* Task::state(&mut self, state)
TaskState(task, state) == [task EXCEPT !.state = state]

\* A test for "not running" where "idle" is meant.
is_idle_NotRunning(task) == task.state.tag # "Running"

\* Task::is_idle
is_idle(task) == task.state.tag = "Idle"

\* tasks[id] of the 0-based Vec
TaskAt(id) == tasks[id + 1]

\* Option::unwrap of current_task
Unwrap(opt) == CHOOSE i \in opt : TRUE

Min(a, b) == IF a <= b THEN a ELSE b

Abs(x) == IF x < 0 THEN -x ELSE x

\* ----------------------------------------------------------- AddToQueue

\* ((start - stop).abs() / step).floor() as usize, on f64: a zero step divides
\* to NaN (0/0, cast to 0) or to +infinity (cast saturates to usize::MAX); a
\* negative quotient casts to 0.
NumImages(start, stop, step) ==
    IF step = 0
    THEN IF start = stop THEN 0 ELSE UsizeMax
    ELSE IF step < 0 THEN 0
    ELSE Abs(start - stop) \div step

\* itertools_num::linspace(start, stop, n): n evenly spaced biases from start
\* to stop inclusive (only start when n = 1); one STMImage per bias.
Linspace(start, stop, n) ==
    [k \in 1..n |->
        IF n > 1
        THEN [num |-> start * (n - 1) + (k - 1) * (stop - start), den |-> n - 1]
        ELSE [num |-> start, den |-> 1]]

\* The push without the is_none() branch.
CurrentAfterPush_Keep(cur) == cur

\* if current_task.is_none() { current_task = Some(0) }
CurrentAfterPush(cur) == IF cur = {} THEN {0} ELSE cur

AddToQueue ==
    /\ pc = "loop"
    /\ Len(tasks) < MaxTasks
    /\ LET id == Len(tasks)
           n == NumImages(start_voltage, stop_voltage, step_voltage)
       IN IF n = UsizeMax
          THEN \* the loop pushes usize::MAX images: the allocation fails
               /\ pc' = "aborted"
               /\ UNCHANGED <<tasks, current_task>>
          ELSE /\ tasks' = Append(tasks,
                       TaskNew(Linspace(start_voltage, stop_voltage, n), id))
               /\ current_task' = CurrentAfterPush(current_task)
               /\ pc' = "loop"
    /\ UNCHANGED <<start_voltage, stop_voltage, step_voltage, receiver,
                   inflight, everStarted>>
    /\ UNCHANGED spinVars

\* ------------------------------------------------------ voltage messages

StartVoltageChanged(v) ==
    /\ pc = "loop"
    /\ start_voltage' = v
    /\ UNCHANGED <<stop_voltage, step_voltage, tasks, current_task, receiver,
                   inflight, pc, everStarted>>
    /\ UNCHANGED spinVars

StopVoltageChanged(v) ==
    /\ pc = "loop"
    /\ stop_voltage' = v
    /\ UNCHANGED <<start_voltage, step_voltage, tasks, current_task, receiver,
                   inflight, pc, everStarted>>
    /\ UNCHANGED spinVars

StepVoltageChanged(v) ==
    /\ pc = "loop"
    /\ step_voltage' = v
    /\ UNCHANGED <<start_voltage, stop_voltage, tasks, current_task, receiver,
                   inflight, pc, everStarted>>
    /\ UNCHANGED spinVars

\* ---------------------------------------------------------- PlayPressed

\* A handler that returns to the event loop without waiting for the result.
AfterDispatch_NoWait == "loop"

\* Where the handler is once try_task has returned: in recv() (main.rs:176).
AfterDispatch == "recv"

\* The handler up to the blocking recv(): the state change, the new channel
\* and the submission to the runtime.
PlayPressed ==
    /\ pc = "loop"
    /\ IF current_task # {} /\ is_idle(TaskAt(Unwrap(current_task)))
       THEN LET id == Unwrap(current_task)
                content == TaskAt(id).content
            IN /\ tasks' = [tasks EXCEPT ![id + 1] = TaskState(@, Running)]
               /\ everStarted' = TRUE
               /\ IF content = <<>>
                  THEN \* content()[0]: index out of bounds
                       /\ pc' = "aborted"
                       /\ UNCHANGED <<receiver, inflight>>
                  ELSE IF Len(inflight) >= ChannelCapacity
                  THEN \* try_task(..) is Err: unwrap panics
                       /\ pc' = "aborted"
                       /\ UNCHANGED <<receiver, inflight>>
                  ELSE /\ inflight' = Append(inflight, content[1])
                       /\ receiver' = [some |-> TRUE, buf |-> <<>>]
                       /\ pc' = AfterDispatch
       ELSE UNCHANGED <<tasks, everStarted, receiver, inflight, pc>>
    /\ UNCHANGED <<start_voltage, stop_voltage, step_voltage, current_task>>
    /\ UNCHANGED spinVars

\* What the runtime can send back: JlrsResult<Bool>.
Ok(b) == [tag |-> "Ok", val |-> b]
Err == [tag |-> "Err", val |-> FALSE]
Results == {Ok(TRUE), Ok(FALSE), Err}

\* The runtime runs the oldest submitted task (AsyncTask::run for STMImage)
\* and sends the result on the task's channel.
JuliaRun(result) ==
    /\ inflight # <<>>
    /\ inflight' = Tail(inflight)
    /\ receiver' = [receiver EXCEPT !.buf = Append(@, result)]
    /\ UNCHANGED <<start_voltage, stop_voltage, step_voltage, tasks,
                   current_task, pc, everStarted>>
    /\ UNCHANGED spinVars

\* recv().unwrap().unwrap(); println!: the handler resumes with the result.
\* An Err panics; an Ok is printed and the handler returns.
PlayRecv ==
    /\ pc = "recv"
    /\ receiver.buf # <<>>
    /\ receiver' = [receiver EXCEPT !.buf = Tail(@)]
    /\ pc' = IF Head(receiver.buf).tag = "Ok" THEN "loop" ELSE "aborted"
    /\ UNCHANGED <<start_voltage, stop_voltage, step_voltage, tasks,
                   current_task, inflight, everStarted>>
    /\ UNCHANGED spinVars

\* ---------------------------------------------------------- StopPressed

\* The advance without the saturation at the last index.
NextCurrent_NoSaturate(id, len) == id + 1

\* The advance saturating one past the last index.
NextCurrent_OffByOne(id, len) == Min(id + 1, len)

\* min(id + 1, tasks.len() - 1)
NextCurrent(id, len) == Min(id + 1, len - 1)

\* The state StopPressed gives the current task.
StopState_Untouched(task) == task

StopState(task) == TaskState(task, Failed(InterruptedByUser))

StopPressed ==
    /\ pc = "loop"
    /\ IF current_task # {}
       THEN LET id == Unwrap(current_task)
            IN /\ tasks' = [tasks EXCEPT
                      ![id + 1] = StopState(@)]
               /\ current_task' = {NextCurrent(id, Len(tasks))}
       ELSE UNCHANGED <<tasks, current_task>>
    /\ UNCHANGED <<start_voltage, stop_voltage, step_voltage, receiver,
                   inflight, pc, everStarted>>
    /\ UNCHANGED spinVars

\* ================================================= ScientificSpinBox

\* An f64 significand is kept as an exact decimal: an integer count of
\* millionths.  One == 1.0.  Sums, differences and comparisons of decimals
\* are exact here; where the f64 result of the code differs from the exact
\* decimal result, the claim that depends on it says so.
One == 1000000

Thousand == 1000 * One

\* ExponentialNumber::new(significand, exponent)
ExponentialNumber(significand, exponent) ==
    [significand |-> significand, exponent |-> exponent]

\* Bounds::new(lower, upper): stored as given, not validated.
BoundsNew(lower, upper) == [lower |-> lower, upper |-> upper]

RECURSIVE Pow10(_)
Pow10(k) == IF k <= 0 THEN 1 ELSE 10 * Pow10(k - 1)

Sign(x) == IF x < 0 THEN -1 ELSE IF x > 0 THEN 1 ELSE 0

\* The sign of hi * 10^d - lo for hi, lo > 0 and d >= 0, without forming
\* the product.
CmpScaled(hi, d, lo) ==
    IF d > 9 THEN 1
    ELSE LET q == lo \div Pow10(d)
             r == lo % Pow10(d)
         IN IF hi > q THEN 1
            ELSE IF hi < q THEN -1
            ELSE IF r = 0 THEN 0 ELSE -1

\* The sign of a.to_f64() - b.to_f64(), to_f64 being significand * 10^exponent.
Cmp(a, b) ==
    IF Sign(a.significand) # Sign(b.significand)
    THEN Sign(Sign(a.significand) - Sign(b.significand))
    ELSE IF a.significand = 0 THEN 0
    ELSE LET s == Sign(a.significand)
             x == Abs(a.significand)
             y == Abs(b.significand)
         IN IF a.exponent >= b.exponent
            THEN s * CmpScaled(x, a.exponent - b.exponent, y)
            ELSE -s * CmpScaled(y, b.exponent - a.exponent, x)

\* The bound check without its lower half.
in_bounds_UpperOnly(b, v) == Cmp(v, b.upper) <= 0

\* Bounds::in_bounds: value == clamp(value, lower, upper)
in_bounds(b, v) == Cmp(v, b.lower) >= 0 /\ Cmp(v, b.upper) <= 0

\* x / 1000.0, to the nearest millionth.
Div1000(x) ==
    LET a == Abs(x)
        q == a \div 1000
        r == a % 1000
        n == IF r > 500 \/ (r = 500 /\ q % 2 = 1) THEN q + 1 ELSE q
    IN Sign(x) * n

\* ------------------------------------------------------------- strings

\* A string is a sequence of one-character strings, one per grapheme.
DigitChars == <<"0", "1", "2", "3", "4", "5", "6", "7", "8", "9">>

IsDigit(c) == \E i \in 1..10 : DigitChars[i] = c

DigitVal(c) == (CHOOSE i \in 1..10 : DigitChars[i] = c) - 1

\* char::is_numeric: the decimal digits, and numeric characters that are
\* no decimal digit, of which "^2" (SUPERSCRIPT TWO) stands for all.
is_numeric(c) == IsDigit(c) \/ c = "^2"

RECURSIVE NatDigits(_)
NatDigits(n) ==
    IF n < 10 THEN <<DigitChars[n + 1]>>
    ELSE NatDigits(n \div 10) \o <<DigitChars[(n % 10) + 1]>>

\* n written with exactly w digits.
RECURSIVE PadDigits(_, _)
PadDigits(n, w) ==
    IF w = 0 THEN <<>>
    ELSE PadDigits(n \div 10, w - 1) \o <<DigitChars[(n % 10) + 1]>>

RECURSIVE StripZeros(_)
StripZeros(s) ==
    IF s # <<>> /\ s[Len(s)] = "0" THEN StripZeros(SubSeq(s, 1, Len(s) - 1))
    ELSE s

RECURSIVE DigitsVal(_)
DigitsVal(s) ==
    IF s = <<>> THEN 0
    ELSE 10 * DigitsVal(SubSeq(s, 1, Len(s) - 1)) + DigitVal(s[Len(s)])

\* format!("{:.3}", x) for x >= 0
Format3(x) ==
    LET m == Div1000(x)
    IN NatDigits(m \div 1000) \o <<".">> \o PadDigits(m % 1000, 3)

\* f64::to_string: the shortest decimal, no exponent, "-" for a negative.
to_string(x) ==
    LET a == Abs(x)
        frac == StripZeros(PadDigits(a % One, 6))
    IN (IF x < 0 THEN <<"-">> ELSE <<>>)
       \o NatDigits(a \div One)
       \o (IF frac = <<>> THEN <<>> ELSE <<".">> \o frac)

\* get_prefix_from_exponent
get_prefix_from_exponent(exp) ==
    CASE exp = -12 -> <<"p">>
      [] exp = -9 -> <<"n">>
      [] exp = -6 -> <<"u">>
      [] exp = -3 -> <<"m">>
      [] exp = 0 -> <<" ">>
      [] exp = 3 -> <<"k">>
      [] exp = 6 -> <<"M">>
      [] exp = 9 -> <<"G">>
      [] exp = 12 -> <<"T">>
      [] OTHER -> <<"w", "o", "o", "p", "s">>

\* The display text ScientificSpinBox::new builds for the text input.
Display(v, u) ==
    (IF v.significand < 0 THEN <<"-">> ELSE <<>>)
    \o Format3(Abs(v.significand)) \o <<" ">>
    \o get_prefix_from_exponent(v.exponent) \o u

\* The digits of s before its first " " or ".": what get_step keeps of the
\* display text (a leading "-" included).
IntLen(s) ==
    LET stops == {i \in 1..Len(s) : s[i] = " " \/ s[i] = "."}
    IN IF stops = {} THEN Len(s)
       ELSE (CHOOSE i \in stops : \A j \in stops : i <= j) - 1

\* get_step's exponent without the adjustment for a position before the
\* decimal point.
StepExp_NoAdjust(pos, s) == IntLen(s) - pos

\* get_step(pos, value), as the exponent of ten: the step is 10^StepExp.
StepExp(pos, s) ==
    LET decimal_pos == IF pos < IntLen(s) THEN IntLen(s) - 1 ELSE IntLen(s)
    IN decimal_pos - pos

\* get_step(pos, value) in millionths; the display text has three decimals,
\* so StepExp is at least -3 on a digit.
get_step(pos, s) ==
    IF StepExp(pos, s) >= 0 THEN One * Pow10(StepExp(pos, s))
    ELSE One \div Pow10(-StepExp(pos, s))

\* A parse result: Ok(val) or Err.
ParseOk(val) == [ok |-> TRUE, val |-> val]
ParseErr == [ok |-> FALSE, val |-> 0]

\* The largest magnitude a parse result keeps; anything larger is beyond
\* every significand bound of the program and is held at this value.
ParseMax == 2000

\* f64::from_str on a string made of digits, "-", "." and the typed
\* character: an optional leading "-", digits with at most one ".", at
\* least one digit.  The value is kept to the millionth.
Parse(s) ==
    LET neg == s # <<>> /\ s[1] = "-"
        body == IF neg THEN Tail(s) ELSE s
        dots == {i \in 1..Len(body) : body[i] = "."}
        k == IF dots = {} THEN Len(body) + 1 ELSE CHOOSE i \in dots : TRUE
        ip == SubSeq(body, 1, k - 1)
        fp == SubSeq(body, k + 1, Len(body))
        fp6 == DigitsVal(SubSeq(fp \o <<"0", "0", "0", "0", "0", "0">>, 1, 6))
        mag == IF Len(ip) > 4 \/ DigitsVal(ip) >= ParseMax
               THEN ParseMax * One
               ELSE DigitsVal(ip) * One + fp6
    IN IF /\ Cardinality(dots) <= 1
          /\ \A i \in 1..Len(body) : body[i] = "." \/ IsDigit(body[i])
          /\ \E i \in 1..Len(body) : IsDigit(body[i])
       THEN ParseOk(IF neg THEN -mag ELSE mag)
       ELSE ParseErr

\* String::insert(idx, c)
Insert(s, idx, c) == SubSeq(s, 1, idx) \o <<c>> \o SubSeq(s, idx + 1, Len(s))

\* String::replace_range(from..to, c)
ReplaceRange(s, from, to, c) ==
    SubSeq(s, 1, from) \o <<c>> \o SubSeq(s, to + 1, Len(s))

\* -------------------------------------------------------------- cursor

\* cursor::State::Index(index)
Index(index) == [tag |-> "Index", start |-> index, end |-> index]

\* cursor::State::Selection { start, end }
Selection(start, end) == [tag |-> "Selection", start |-> start, end |-> end]

\* Cursor::state without the clamp to the buffer's length.
CursorState_NoClamp(cur, len) ==
    IF cur.tag = "Index" THEN cur
    ELSE IF cur.start = cur.end THEN Index(cur.start) ELSE cur

\* Cursor::state(value): the stored state clamped to value.len().
CursorState(cur, len) ==
    IF cur.tag = "Index" THEN Index(Min(cur.start, len))
    ELSE LET start == Min(cur.start, len)
             end == Min(cur.end, len)
         IN IF start = end THEN Index(start) ELSE Selection(start, end)

\* Cursor::selection(value).unwrap_or((0, 1)), then start.min(end): the
\* position increase_val and decrease_val act on.
SelectedPos(cur, len) ==
    LET st == CursorState(cur, len)
    IN IF st.tag = "Selection" THEN Min(st.start, st.end) ELSE 0

\* Cursor::select_range
select_range(start, end) ==
    IF start = end THEN Index(start) ELSE Selection(start, end)

\* The Selection arm of select_left without the look at the grapheme to the
\* left: one position whenever there is room.
SelectLeftSel_OneStep(st, stored, s) ==
    IF st.end > 0 /\ st.start > 0
    THEN select_range(st.start - 1, st.end - 1)
    ELSE stored

\* The Selection arm of select_left; stored is what self.state holds when
\* neither move applies.
SelectLeftSel(st, stored, s) ==
    IF st.end > 0 /\ st.start > 0
    THEN IF is_numeric(s[Min(st.start, st.end)])
         THEN select_range(st.start - 1, st.end - 1)
         ELSE IF st.end > 1 /\ st.start > 1
              THEN select_range(st.start - 2, st.end - 2)
              ELSE stored
    ELSE stored

\* Cursor::select_left(value)
select_left(cur, s) ==
    LET st == CursorState(cur, Len(s))
    IN IF st.tag = "Index"
       THEN IF st.start > 0
            THEN SelectLeftSel(Selection(st.start - 1, st.start),
                               Selection(st.start - 1, st.start), s)
            ELSE cur
       ELSE SelectLeftSel(st, cur, s)

\* The Selection arm of select_right.
SelectRightSel(st, stored, s) ==
    IF st.end <= Len(s) - 1 /\ st.start <= Len(s) - 1
    THEN IF is_numeric(s[Min(st.start, st.end) + 2])
         THEN select_range(st.start + 1, st.end + 1)
         ELSE IF st.end < Len(s) - 2 /\ st.start < Len(s) - 2
              THEN select_range(st.start + 2, st.end + 2)
              ELSE stored
    ELSE stored

\* Cursor::select_right(value), for a non-empty value
select_right(cur, s) ==
    LET st == CursorState(cur, Len(s))
    IN IF st.tag = "Index"
       THEN IF st.start < Len(s) - 1
            THEN SelectRightSel(Selection(st.start, st.start + 1),
                                Selection(st.start, st.start + 1), s)
            ELSE cur
       ELSE SelectRightSel(st, cur, s)

\* ------------------------------------------- increase_val, decrease_val

\* A renormalized significand: [significand, exponent, scaled], scaled
\* telling that the x1000 branch was taken (the one that moves the cursor).
Renorm(significand, exponent, scaled) ==
    [significand |-> significand, exponent |-> exponent, scaled |-> scaled]

\* The renormalization of decrease_val (scientificspinbox.rs:271-282).
DecRenorm(new_sig, exp) ==
    IF new_sig <= -Thousand THEN Renorm(Div1000(new_sig), exp + 3, FALSE)
    ELSE IF new_sig < One /\ new_sig > 0 /\ exp - 3 # -12
         THEN Renorm(new_sig * 1000, exp - 3, TRUE)
         ELSE Renorm(new_sig, exp, FALSE)

\* increase_val's renormalization without the division by 1000.
IncRenorm_NoDivide(new_sig, exp) ==
    IF (-One < new_sig /\ new_sig < 0) \/ (0 < new_sig /\ new_sig < One)
    THEN Renorm(new_sig * 1000, exp - 3, TRUE)
    ELSE Renorm(new_sig, exp, FALSE)

\* The renormalization of increase_val (scientificspinbox.rs:329-340).
IncRenorm(new_sig, exp) ==
    IF new_sig >= Thousand THEN Renorm(Div1000(new_sig), exp + 3, FALSE)
    ELSE IF (-One < new_sig /\ new_sig < 0) \/ (0 < new_sig /\ new_sig < One)
         THEN Renorm(new_sig * 1000, exp - 3, TRUE)
         ELSE Renorm(new_sig, exp, FALSE)

\* What a step gives back: the value it publishes and the stored cursor.
StepResult(pub, cur) == [pub |-> pub, cur |-> cur]

\* The value increase_val publishes when its result is out of bounds, were
\* it the lower bound.
IncClamp_Lower(b) == b.lower

\* The value increase_val publishes when its result is out of bounds.
IncClamp(b) == b.upper

\* The value decrease_val publishes when its result is out of bounds, were
\* it the upper bound.
DecClamp_Upper(b) == b.upper

\* The value decrease_val publishes when its result is out of bounds.
DecClamp(b) == b.lower

\* The digit at pos is numeric: value.graphemes[pos].chars().next()
OnDigit(cur, s) == is_numeric(s[SelectedPos(cur, Len(s)) + 1])

\* decrease_val's digit-step result before the bound check.
DecDigit(v, cur, s) ==
    DecRenorm(v.significand - get_step(SelectedPos(cur, Len(s)), s), v.exponent)

\* increase_val's digit-step result before the bound check.
IncDigit(v, cur, s) ==
    IncRenorm(v.significand + get_step(SelectedPos(cur, Len(s)), s), v.exponent)

\* ScientificSpinBox::decrease_val: v is self.value, b self.bounds, cur the
\* text input's stored cursor and s the displayed text.
decrease_val(v, b, cur, s) ==
    IF OnDigit(cur, s)
    THEN LET r == DecDigit(v, cur, s)
             new_val == ExponentialNumber(r.significand, r.exponent)
             new_value == to_string(r.significand)
             cur1 == IF r.scaled
                     THEN select_left(select_left(cur, new_value), new_value)
                     ELSE cur
             cur2 == IF v.significand >= 0 /\ r.significand < 0
                     THEN select_right(cur1, new_value)
                     ELSE cur1
         IN StepResult(IF in_bounds(b, new_val) THEN new_val ELSE DecClamp(b),
                       cur2)
    ELSE LET new_exp == v.exponent - 3
             new_val == ExponentialNumber(v.significand, new_exp)
         IN StepResult(IF ~in_bounds(b, new_val) THEN DecClamp(b)
                       ELSE IF new_exp < -12
                            THEN ExponentialNumber(v.significand, -12)
                            ELSE new_val,
                       cur)

\* ScientificSpinBox::increase_val
increase_val(v, b, cur, s) ==
    IF OnDigit(cur, s)
    THEN LET r == IncDigit(v, cur, s)
             new_val == ExponentialNumber(r.significand, r.exponent)
             new_value == to_string(r.significand)
             cur1 == IF r.scaled
                     THEN select_left(select_left(cur, new_value), new_value)
                     ELSE cur
             cur2 == IF v.significand < 0 /\ r.significand >= 0
                     THEN select_left(cur1, new_value)
                     ELSE cur1
         IN StepResult(IF in_bounds(b, new_val) THEN new_val ELSE IncClamp(b),
                       cur2)
    ELSE LET new_exp == v.exponent + 3
             new_val == ExponentialNumber(v.significand, new_exp)
         IN StepResult(IF ~in_bounds(b, new_val) THEN IncClamp(b)
                       ELSE IF new_exp > b.upper.exponent
                            THEN ExponentialNumber(v.significand,
                                                   b.upper.exponent)
                            ELSE new_val,
                       cur)

\* ----------------------------------------------------- typed character

\* The range check on a typed significand, always passing.
SigInRange_Always(b, val) == TRUE

\* (bounds.lower.significand..=bounds.upper.significand).contains(&val)
SigInRange(b, val) ==
    b.lower.significand <= val /\ val <= b.upper.significand

\* The significand string after the typed character c went in
\* (scientificspinbox.rs:536-559).
TypedString(v, cur, c) ==
    LET new_val == to_string(v.significand)
        st == CursorState(cur, Len(new_val))
    IN IF st.tag = "Index"
       THEN IF v.significand = 0 THEN <<c>>
            ELSE Insert(new_val, st.start, c)
       ELSE IF st.start < Len(new_val) /\ st.end < Len(new_val)
            THEN ReplaceRange(new_val, Min(st.start, st.end),
                              IF st.start > st.end THEN st.start ELSE st.end, c)
            ELSE new_val

\* The typed character commits: the string parses and is in range.
TypedCommits(v, b, cur, c) ==
    /\ Parse(TypedString(v, cur, c)).ok
    /\ SigInRange(b, Parse(TypedString(v, cur, c)).val)

\* ------------------------------------------------------ spin box events

\* The most value-publishing events the model follows from a start value.
MaxSpinSteps == 2

\* The spin boxes R9Control::view builds (main.rs:341-451), each with its
\* bounds, its unit and the values the model starts it from: the value
\* R9Control::default() gives it (main.rs:68-75) first, and then values the
\* operator reaches from there with the arrow keys (0 V -> 5 V by five
\* increases of the ones digit; 50 nm -> 95 nm and 999 nm digit by digit;
\* 0 nm -> 0 pm by one decrease on the prefix).
SizeBox ==
    [bounds |-> BoundsNew(ExponentialNumber(210 * One, -12),
                          ExponentialNumber(2100000, -6)),
     unit |-> <<"m">>,
     starts |-> {ExponentialNumber(50 * One, -9),
                 ExponentialNumber(95 * One, -9),
                 ExponentialNumber(999 * One, -9)}]

XOffsetBox ==
    [bounds |-> BoundsNew(ExponentialNumber(-1050000, -6),
                          ExponentialNumber(1050000, -6)),
     unit |-> <<"m">>,
     starts |-> {ExponentialNumber(0, -9), ExponentialNumber(0, -12)}]

LineTimeBox ==
    [bounds |-> BoundsNew(ExponentialNumber(102400000, -3),
                          ExponentialNumber(100 * One, 0)),
     unit |-> <<"s">>,
     starts |-> {ExponentialNumber(0, 0)}]

VoltageBox ==
    [bounds |-> BoundsNew(ExponentialNumber(-5 * One, 0),
                          ExponentialNumber(5 * One, 0)),
     unit |-> <<"V">>,
     starts |-> {ExponentialNumber(0, 0), ExponentialNumber(5 * One, 0)}]

Boxes == {SizeBox, XOffsetBox, LineTimeBox, VoltageBox}

\* Where the pointer is: over the increase button, over the decrease
\* button, elsewhere over the text, or outside the widget.  The two buttons
\* are laid out over the right end of the text (scientificspinbox.rs:
\* 413-449), so they are inside the text input's bounds.
Locs == {"inc", "dec", "text", "outside"}

mouse_over_inc(loc) == loc = "inc"
mouse_over_dec(loc) == loc = "dec"
InBounds(loc) == loc # "outside"

\* Keyboard events reach the widget's key handling whatever the focus.
KeyboardReaches_Always(focused, loc) ==
    ~mouse_over_inc(loc) /\ ~mouse_over_dec(loc)

\* Keyboard events reach the key handling of on_event: the text input is
\* focused and the pointer is over neither button
\* (scientificspinbox.rs:505-506, 532, 636-637).
KeyboardReaches(focused, loc) ==
    focused /\ ~mouse_over_inc(loc) /\ ~mouse_over_dec(loc)

\* Where the pointer is when a keyboard event arrives: over a button or not.
KeyLocs == {"inc", "text"}

\* The keys of KeyPressed the widgets tell apart, Tab aside.
Keys == {"Up", "Down", "Left", "Right", "Escape"}

\* The characters of CharacterReceived the model types.
TypedChars == {"0", "3", "^2", "a"}

\* The text the text input shows: rebuilt from the application's value by
\* every view().
Shown == Display(value, unit)

\* self.bounds.lower.to_f64() == self.bounds.upper.to_f64(): on_event
\* returns at once.
Degenerate == Cmp(bounds.lower, bounds.upper) = 0

\* shell.publish((self.on_change)(v)); the application stores v
\* (main.rs:201-267) and the next view() shows it.
Publish(v) ==
    /\ value' = v
    /\ published' = <<v>>
    /\ steps' = steps + 1

\* The event publishes nothing.
NoPublish ==
    /\ published' = <<>>
    /\ UNCHANGED <<value, steps>>

\* increase_val or decrease_val ran with result res.
Stepped(res) ==
    /\ Publish(res.pub)
    /\ cursor' = res.cur
    /\ UNCHANGED is_focused

Ignored == NoPublish /\ UNCHANGED <<cursor, is_focused>>

\* Event::Mouse(ButtonPressed(Left)) with the pointer at loc.
ButtonPressed(loc) ==
    /\ steps < MaxSpinSteps
    /\ IF Degenerate THEN Ignored
       ELSE IF is_focused /\ mouse_over_dec(loc)
       THEN Stepped(decrease_val(value, bounds, cursor, Shown))
       ELSE IF is_focused /\ mouse_over_inc(loc)
       THEN Stepped(increase_val(value, bounds, cursor, Shown))
       ELSE \* the text input's update: focus follows the click
            /\ is_focused' = InBounds(loc)
            /\ NoPublish
            /\ UNCHANGED cursor
    /\ UNCHANGED <<bounds, unit>>
    /\ UNCHANGED <<queueVars, buffer>>

\* Event::Keyboard(KeyPressed { key_code }) with the pointer at loc.
KeyPressed(key, loc) ==
    /\ steps < MaxSpinSteps
    /\ IF Degenerate \/ ~KeyboardReaches(is_focused, loc)
       THEN Ignored
       ELSE CASE key = "Up" ->
                   Stepped(increase_val(value, bounds, cursor, Shown))
              [] key = "Down" ->
                   Stepped(decrease_val(value, bounds, cursor, Shown))
              [] key = "Left" ->
                   /\ cursor' = select_left(cursor, Shown)
                   /\ NoPublish
                   /\ UNCHANGED is_focused
              [] key = "Right" ->
                   /\ cursor' = select_right(cursor, Shown)
                   /\ NoPublish
                   /\ UNCHANGED is_focused
              [] key = "Escape" ->
                   /\ is_focused' = FALSE
                   /\ NoPublish
                   /\ UNCHANGED cursor
              [] OTHER -> Ignored
    /\ UNCHANGED <<bounds, unit>>
    /\ UNCHANGED <<queueVars, buffer>>

\* Event::Keyboard(CharacterReceived(c)) with the pointer at loc.
CharacterReceived(c, loc) ==
    /\ steps < MaxSpinSteps
    /\ IF /\ ~Degenerate
          /\ KeyboardReaches(is_focused, loc)
          /\ is_numeric(c)
          /\ TypedCommits(value, bounds, cursor, c)
       THEN /\ Publish(ExponentialNumber(
                          Parse(TypedString(value, cursor, c)).val,
                          value.exponent))
            /\ UNCHANGED <<cursor, is_focused>>
       ELSE Ignored
    /\ UNCHANGED <<bounds, unit>>
    /\ UNCHANGED <<queueVars, buffer>>

\* Event::Mouse(WheelScrolled { delta }), negative telling the sign of y.
WheelScrolled(negative, loc) ==
    /\ steps < MaxSpinSteps
    /\ IF /\ ~Degenerate
          /\ is_focused
          /\ ~mouse_over_inc(loc)
          /\ ~mouse_over_dec(loc)
          /\ InBounds(loc)
       THEN IF negative
            THEN Stepped(increase_val(value, bounds, cursor, Shown))
            ELSE Stepped(decrease_val(value, bounds, cursor, Shown))
       ELSE Ignored
    /\ UNCHANGED <<bounds, unit>>
    /\ UNCHANGED <<queueVars, buffer>>

\* The Tab key: every KeyPressed(Tab) reaches R9Control::subscription
\* (main.rs:278-293), which answers with FocusNext or FocusPrevious, and
\* update runs iced's focus_next()/focus_previous() (main.rs:272-273) over
\* the focusable widgets, of which the text input is one
\* (scientific_text_input.rs:259-271).  The window holds other focusable
\* widgets, so a focused box loses the focus; an unfocused box gets it when
\* it is the next in line, which `takes` tells.
TabPressed(takes) ==
    /\ is_focused' = IF is_focused THEN FALSE ELSE takes
    /\ NoPublish
    /\ UNCHANGED <<cursor, bounds, unit>>
    /\ UNCHANGED <<queueVars, buffer>>

\* The queue as R9Control::default() leaves it.
QueueInit ==
    /\ start_voltage = 0
    /\ stop_voltage = 0
    /\ step_voltage = 0
    /\ tasks = <<>>
    /\ current_task = {}
    /\ receiver = [some |-> FALSE, buf |-> <<>>]
    /\ inflight = <<>>
    /\ pc = "loop"
    /\ everStarted = FALSE

\* One spin box of the window as the first view() builds it: unfocused,
\* State::default() for the cursor, nothing published yet.
SpinInit ==
    /\ QueueInit
    /\ \E box \in Boxes :
          /\ bounds = box.bounds
          /\ unit = box.unit
          /\ value \in box.starts
    /\ cursor = Index(0)
    /\ is_focused = FALSE
    /\ published = <<>>
    /\ steps = 0
    /\ buffer = <<>>

SpinNext ==
    \/ \E loc \in Locs : ButtonPressed(loc)
    \/ \E key \in Keys, loc \in KeyLocs : KeyPressed(key, loc)
    \/ \E c \in TypedChars, loc \in KeyLocs : CharacterReceived(c, loc)
    \/ \E negative \in BOOLEAN, loc \in Locs : WheelScrolled(negative, loc)
    \/ \E takes \in BOOLEAN : TabPressed(takes)

\* The spin box under the operator's events, the queue left alone.
SpinSpec == SpinInit /\ [][SpinNext]_vars

\* ------------------------------------------------- the bounds builders

\* min's test, always passing.
MinAccepts_Always(b, m) == TRUE

\* min.to_f64() <= self.bounds.upper.to_f64()
MinAccepts(b, m) == Cmp(m, b.upper) <= 0

\* max.to_f64() >= self.bounds.lower.to_f64()
MaxAccepts(b, m) == Cmp(m, b.lower) >= 0

\* bounds.lower.to_f64() <= bounds.upper.to_f64()
BoundsAccepts(nb) == Cmp(nb.lower, nb.upper) <= 0

\* ScientificSpinBox::min(min): self.bounds afterwards
min(b, m) == IF MinAccepts(b, m) THEN [b EXCEPT !.lower = m] ELSE b

\* ScientificSpinBox::max(max)
max(b, m) == IF MaxAccepts(b, m) THEN [b EXCEPT !.upper = m] ELSE b

\* ScientificSpinBox::bounds(bounds)
with_bounds(b, nb) == IF BoundsAccepts(nb) THEN nb ELSE b

\* The numbers the model hands to the builders.
SampleSignificands == {-5 * One, 0, 1050000, 210 * One}

SampleExponents == {-6, 0}

SampleNumbers ==
    {ExponentialNumber(s, e) : s \in SampleSignificands, e \in SampleExponents}

\* A builder call on the spin box under construction.
SetMin(m) ==
    /\ bounds' = min(bounds, m)
    /\ UNCHANGED <<value, unit, cursor, is_focused, published, steps>>
    /\ UNCHANGED <<queueVars, buffer>>

SetMax(m) ==
    /\ bounds' = max(bounds, m)
    /\ UNCHANGED <<value, unit, cursor, is_focused, published, steps>>
    /\ UNCHANGED <<queueVars, buffer>>

SetBounds(nb) ==
    /\ bounds' = with_bounds(bounds, nb)
    /\ UNCHANGED <<value, unit, cursor, is_focused, published, steps>>
    /\ UNCHANGED <<queueVars, buffer>>

BoundsNext ==
    \/ \E m \in SampleNumbers : SetMin(m)
    \/ \E m \in SampleNumbers : SetMax(m)
    \/ \E lower \in SampleNumbers, upper \in SampleNumbers :
          SetBounds(BoundsNew(lower, upper))

\* A spin box built with the bounds of one of the window's boxes, then any
\* chain of min, max and bounds calls.
BoundsSpec == SpinInit /\ [][BoundsNext]_vars

\* ------------------------------------------------- the cursor on its own

\* Values handed to the cursor operations: the empty Value, the significand
\* texts increase_val and decrease_val pass (f64::to_string), and displayed
\* texts of the spin boxes.
Buffers ==
    { <<>>,
      to_string(0),
      to_string(-One),
      to_string(105 * One),
      to_string(1050000),
      Display(ExponentialNumber(0, 0), <<"V">>),
      Display(ExponentialNumber(-5 * One, 0), <<"V">>),
      Display(ExponentialNumber(50 * One, -9), <<"m">>),
      Display(ExponentialNumber(100 * One, -9), <<"m">>),
      Display(ExponentialNumber(-1050000, -6), <<"m">>) }

\* Cursor::select_left(value)
SelectLeft ==
    /\ pc = "loop"
    /\ cursor' = select_left(cursor, buffer)
    /\ UNCHANGED <<queueVars, value, bounds, unit, is_focused, published,
                   steps, buffer>>

\* The guard of the Index arm of select_right computes value.len() - 1 in
\* usize; on an empty Value that is 0 - 1.
SelectRightUnderflows(cur, s) ==
    CursorState(cur, Len(s)).tag = "Index" /\ Len(s) = 0

\* Cursor::select_right(value).  On the underflow the call does not return:
\* with overflow checks the subtraction panics and the stored cursor is left
\* alone; without them it wraps, the guard holds, Selection{0, 1} is stored,
\* state() clamps it back to Index(0) and the function calls itself again
\* without end.
SelectRight ==
    /\ pc = "loop"
    /\ IF SelectRightUnderflows(cursor, buffer)
       THEN /\ pc' = "aborted"
            /\ cursor' \in {cursor, Selection(0, 1)}
       ELSE /\ cursor' = select_right(cursor, buffer)
            /\ pc' = pc
    /\ UNCHANGED <<start_voltage, stop_voltage, step_voltage, tasks,
                   current_task, receiver, inflight, everStarted>>
    /\ UNCHANGED <<value, bounds, unit, is_focused, published, steps, buffer>>

\* The widget is rebuilt around another Value while its State, and with it
\* the stored cursor, is kept.
SetBuffer(t) ==
    /\ pc = "loop"
    /\ buffer' = t
    /\ buffer' # buffer
    /\ UNCHANGED <<queueVars, value, bounds, unit, cursor, is_focused,
                   published, steps>>

\* State::new() of a text input around any of the buffers
CursorInit ==
    /\ QueueInit
    /\ value = ExponentialNumber(0, 0)
    /\ bounds = VoltageBox.bounds
    /\ unit = VoltageBox.unit
    /\ cursor = Index(0)
    /\ is_focused = FALSE
    /\ published = <<>>
    /\ steps = 0
    /\ buffer \in Buffers

CursorNext ==
    \/ SelectLeft
    \/ SelectRight
    \/ \E t \in Buffers : SetBuffer(t)

CursorSpec == CursorInit /\ [][CursorNext]_vars

\* ------------------------------------------------------- specification

\* R9Control::default() with TaskList::default() and JuliaContext::default();
\* the spin box is left as the first view() builds a voltage box.
Init ==
    /\ QueueInit
    /\ value = ExponentialNumber(0, 0)
    /\ bounds = VoltageBox.bounds
    /\ unit = VoltageBox.unit
    /\ cursor = Index(0)
    /\ is_focused = FALSE
    /\ published = <<>>
    /\ steps = 0
    /\ buffer = <<>>

Next ==
    \/ AddToQueue
    \/ PlayPressed
    \/ PlayRecv
    \/ StopPressed
    \/ \E v \in Volts : StartVoltageChanged(v)
    \/ \E v \in Volts : StopVoltageChanged(v)
    \/ \E v \in Volts : StepVoltageChanged(v)
    \/ \E r \in Results : JuliaRun(r)

Spec == Init /\ [][Next]_vars

\* ---------------------------------------------------------------- claims

RunningTasks == {i \in 1..Len(tasks) : tasks[i].state.tag = "Running"}

\* Requests submitted to the runtime whose result the UI has not yet received.
Outstanding == Len(inflight) + Len(receiver.buf)

\* C1: in every reachable state at most one task of the queue is Running.
C1_AtMostOneRunning == Cardinality(RunningTasks) <= 1

\* The second task runs after the first was started and stopped.
C1_Witness ==
    /\ Len(tasks) = 2
    /\ tasks[1].state.tag = "Failed"
    /\ tasks[2].state.tag = "Running"
    /\ everStarted

\* C2: a PlayPressed step turns the current task from Idle to Running (and
\* changes no other task) exactly when current_task is set and that task is
\* Idle; in every other case it changes no task and submits nothing.
C2_StartCurrent ==
    [][PlayPressed =>
        IF current_task # {} /\ TaskAt(Unwrap(current_task)).state = Idle
        THEN tasks' = [tasks EXCEPT ![Unwrap(current_task) + 1].state = Running]
        ELSE /\ tasks' = tasks
             /\ inflight' = inflight
             /\ receiver' = receiver]_vars

\* The current task is Running and the event loop is back: a second
\* PlayPressed finds it not Idle.
C2_Witness ==
    /\ pc = "loop"
    /\ current_task # {}
    /\ TaskAt(Unwrap(current_task)).state = Running
    /\ Outstanding = 0

\* C3: a StopPressed step with a current task sets that task's state to
\* Failed("Interrupted by user.") and current_task to min(current + 1,
\* len - 1); on the last task current_task stays as it was.
C3_StopCurrent ==
    [][(StopPressed /\ current_task # {}) =>
        LET id == Unwrap(current_task)
        IN /\ tasks'[id + 1].state = Failed(InterruptedByUser)
           /\ current_task' = {Min(id + 1, Len(tasks) - 1)}
           /\ (id = Len(tasks) - 1 => current_task' = current_task)]_vars

\* The first task was stopped and current_task advanced; stopping the second
\* (the last) left current_task on it.
C3_Witness ==
    /\ Len(tasks) = 2
    /\ tasks[1].state = Failed(InterruptedByUser)
    /\ tasks[2].state = Failed(InterruptedByUser)
    /\ current_task = {1}

AllowedChanges ==
    {<<"Idle", "Running">>, <<"Running", "Completed">>,
     <<"Idle", "Failed">>, <<"Running", "Failed">>}

\* C4: every step that changes a task's state changes it Idle->Running,
\* Running->Completed, Idle->Failed or Running->Failed, so no step changes
\* the state of a Completed or Failed task.
C4_StateChanges ==
    [][\A i \in 1..Len(tasks) :
          tasks'[i].state # tasks[i].state =>
              <<tasks[i].state.tag, tasks'[i].state.tag>> \in AllowedChanges]_vars

\* The event loop is ready for PlayPressed and StopPressed while
\* current_task points at a task that was started and then failed.
C4_Witness ==
    /\ pc = "loop"
    /\ everStarted
    /\ current_task # {}
    /\ TaskAt(Unwrap(current_task)).state.tag = "Failed"
    /\ Len(tasks) = Unwrap(current_task) + 1

\* C5: current_task is None or Some(i) with 0 <= i < tasks.len().
C5_CurrentValid ==
    \/ current_task = {}
    \/ \E i \in 0..(Len(tasks) - 1) : current_task = {i}

\* StopPressed on the last of two tasks has saturated current_task.
C5_Witness ==
    /\ Len(tasks) = 2
    /\ current_task = {1}
    /\ tasks[2].state.tag = "Failed"

\* C6 as stated: current_task is None exactly when tasks is empty or no task
\* has ever been started.
C6_Original == (current_task = {}) <=> (tasks = <<>> \/ ~everStarted)

\* C6, amended: current_task is None exactly when tasks is empty.
C6_NoneIffEmpty == (current_task = {}) <=> (tasks = <<>>)

\* A task was added and none was ever started: current_task is Some(0).
C6_Witness ==
    /\ tasks # <<>>
    /\ ~everStarted
    /\ current_task = {0}

\* C7 as stated: an AddToQueue step appends exactly one Idle task whose index
\* is the number of tasks before, sets current_task to Some(0) if it was None
\* and leaves it otherwise, and leaves the state of every earlier task.
C7_Original ==
    [][AddToQueue =>
        /\ Len(tasks') = Len(tasks) + 1
        /\ tasks'[Len(tasks) + 1].state = Idle
        /\ tasks'[Len(tasks) + 1].index = Len(tasks)
        /\ current_task' = (IF current_task = {} THEN {0} ELSE current_task)
        /\ \A i \in 1..Len(tasks) : tasks'[i].state = tasks[i].state]_vars

\* C8 as stated: when the backend's result for the Running current task is a
\* success (the PlayPressed handler receives Ok and returns), that task's
\* state becomes Completed and current_task is not advanced.
C8_Original ==
    [][(pc = "recv" /\ pc' = "loop") =>
        /\ tasks'[Unwrap(current_task) + 1].state = Completed
        /\ current_task' = current_task]_vars

\* C9 as stated: while a request is outstanding the event loop can process
\* StopPressed.
C9_Original == (Outstanding > 0) => ENABLED StopPressed

\* C10: at most one submission is outstanding, and while the handler waits
\* for a result the submission it made is still outstanding (it was queued,
\* not dropped).
C10_OneOutstanding ==
    /\ Outstanding <= 1
    /\ (pc = "recv" => Outstanding = 1)

\* The request of the second task is with the runtime, after the first
\* task's request was resolved.
C10_Witness ==
    /\ pc = "recv"
    /\ Len(inflight) = 1
    /\ current_task = {1}
    /\ tasks[1].state.tag = "Failed"

\* C11 as stated: when the backend's result for the Running current task is
\* Err, that task becomes Failed and the event loop goes on; the application
\* does not abort.
C11_Original ==
    [][(pc = "recv" /\ receiver.buf # <<>> /\ Head(receiver.buf).tag = "Err"
            /\ PlayRecv) =>
        /\ tasks'[Unwrap(current_task) + 1].state.tag = "Failed"
        /\ pc' = "loop"]_vars

\* ------------------------------------------------- spin box claims

\* v lies in [b.lower, b.upper], by the exact comparison of the values.
Within(b, v) == Cmp(b.lower, v) <= 0 /\ Cmp(v, b.upper) <= 0

\* The event of this step ran increase_val, which always publishes: the
\* widget is focused and the increase button is pressed, Up is pressed or
\* the wheel turns negative.
IncreaseStep ==
    /\ is_focused
    /\ ~Degenerate
    /\ published' # <<>>
    /\ \/ ButtonPressed("inc")
       \/ KeyPressed("Up", "text")
       \/ WheelScrolled(TRUE, "text")

\* The event of this step ran decrease_val.
DecreaseStep ==
    /\ is_focused
    /\ ~Degenerate
    /\ published' # <<>>
    /\ \/ ButtonPressed("dec")
       \/ KeyPressed("Down", "text")
       \/ WheelScrolled(FALSE, "text")

\* The event of this step reached the typed-character arm with c, which
\* leaves the cursor and the focus alone.
TypedStep(c) ==
    /\ is_focused
    /\ ~Degenerate
    /\ is_numeric(c)
    /\ UNCHANGED <<cursor, is_focused>>
    /\ CharacterReceived(c, "text")

\* The value a digit-step increase computes before the bound check.
IncValue ==
    ExponentialNumber(IncDigit(value, cursor, Shown).significand,
                      IncDigit(value, cursor, Shown).exponent)

\* The value a digit-step decrease computes before the bound check.
DecValue ==
    ExponentialNumber(DecDigit(value, cursor, Shown).significand,
                      DecDigit(value, cursor, Shown).exponent)

\* C12: every value the spin box publishes through on_change, from
\* increase_val, decrease_val or a typed character, lies within
\* [bounds.lower, bounds.upper].
C12_EmittedInBounds ==
    \A i \in 1..Len(published) : Within(bounds, published[i])

\* A step published a value strictly inside the bounds.
C12_Witness ==
    /\ published # <<>>
    /\ Cmp(bounds.lower, published[1]) < 0
    /\ Cmp(published[1], bounds.upper) < 0
    /\ steps = 2

\* C13: when a digit-step increase computes a value above bounds.upper,
\* increase_val publishes exactly bounds.upper; when a digit-step decrease
\* computes a value below bounds.lower, decrease_val publishes exactly
\* bounds.lower.
C13_ClampEmission ==
    [][/\ (IncreaseStep /\ OnDigit(cursor, Shown)
              /\ Cmp(IncValue, bounds.upper) > 0)
          => published' = <<bounds.upper>>
       /\ (DecreaseStep /\ OnDigit(cursor, Shown)
              /\ Cmp(DecValue, bounds.lower) < 0)
          => published' = <<bounds.lower>>]_vars

\* The voltage box at 5 V has published its upper bound, 5 V.
C13_Witness ==
    /\ bounds = VoltageBox.bounds
    /\ is_focused
    /\ steps = 1
    /\ value = bounds.upper
    /\ published = <<bounds.upper>>

\* C14: after any chain of min, max and bounds calls the lower bound is at
\* most the upper bound, and a call whose argument would break that order
\* leaves the bounds as they were.
C14_BoundsOrdered ==
    [][/\ Cmp(bounds'.lower, bounds'.upper) <= 0
       /\ \A m \in SampleNumbers :
             /\ (Cmp(m, bounds.upper) > 0 /\ SetMin(m)) => bounds' = bounds
             /\ (Cmp(m, bounds.lower) < 0 /\ SetMax(m)) => bounds' = bounds
       /\ \A lower \in SampleNumbers, upper \in SampleNumbers :
             (Cmp(lower, upper) > 0 /\ SetBounds(BoundsNew(lower, upper)))
                => bounds' = bounds]_vars

\* A min call above the upper bound was made on bounds some earlier call
\* had changed: the size box's bounds are no longer the ones it was built
\* with, and 210 m as a lower bound is refused.
C14_Witness ==
    /\ unit = <<"m">>
    /\ bounds.upper = ExponentialNumber(0, -6)
    /\ bounds.lower = ExponentialNumber(-5 * One, 0)
    /\ min(bounds, ExponentialNumber(210 * One, 0)) = bounds

\* C15: a numeric character typed into the focused box whose significand
\* string does not parse, or parses to a number outside
\* [bounds.lower.significand, bounds.upper.significand], is discarded: the
\* value stays and nothing is published; otherwise the parsed significand
\* is stored and published with the exponent unchanged.
C15_TypedCharacter ==
    [][\A c \in TypedChars :
          LET parsed == Parse(TypedString(value, cursor, c))
              fits == /\ parsed.ok
                      /\ bounds.lower.significand <= parsed.val
                      /\ parsed.val <= bounds.upper.significand
          IN TypedStep(c) =>
                IF fits
                THEN /\ value' = ExponentialNumber(parsed.val, value.exponent)
                     /\ published' = <<value'>>
                ELSE /\ value' = value
                     /\ published' = <<>>]_vars

\* The voltage box went from 0 V to 3 V in one event: only typing "3"
\* does that.
C15_Witness ==
    /\ bounds = VoltageBox.bounds
    /\ steps = 1
    /\ value = ExponentialNumber(3 * One, 0)
    /\ published = <<value>>

\* C16: when a digit step takes the significand to 1000 or more in
\* magnitude, the published value has the significand divided by 1000 and
\* the exponent raised by 3, if that value is within the bounds.
C16_Renormalize ==
    [][/\ (/\ IncreaseStep
           /\ OnDigit(cursor, Shown)
           /\ Abs(value.significand + get_step(SelectedPos(cursor, Len(Shown)),
                                               Shown)) >= Thousand
           /\ Within(bounds, IncValue))
          => published' =
                <<ExponentialNumber(
                     Div1000(value.significand
                             + get_step(SelectedPos(cursor, Len(Shown)), Shown)),
                     value.exponent + 3)>>
       /\ (/\ DecreaseStep
           /\ OnDigit(cursor, Shown)
           /\ Abs(value.significand - get_step(SelectedPos(cursor, Len(Shown)),
                                               Shown)) >= Thousand
           /\ Within(bounds, DecValue))
          => published' =
                <<ExponentialNumber(
                     Div1000(value.significand
                             - get_step(SelectedPos(cursor, Len(Shown)), Shown)),
                     value.exponent + 3)>>]_vars

\* The size box went from 999 nm to 1 um in one event.
C16_Witness ==
    /\ bounds = SizeBox.bounds
    /\ steps = 1
    /\ value = ExponentialNumber(One, -6)
    /\ published = <<value>>

\* increase_val at the current cursor, then decrease_val on what it left:
\* the value, the cursor and the text after the increase, and the value
\* the decrease publishes.
UpThenDown ==
    LET up == increase_val(value, bounds, cursor, Shown)
        text == Display(up.pub, unit)
    IN [up |-> up,
        text |-> text,
        raw |-> DecDigit(up.pub, up.cur, text),
        down |-> decrease_val(up.pub, bounds, up.cur, text)]

\* C17 as stated: for an in-range value and a selected digit position,
\* increase_val followed by decrease_val at the same position gives back
\* the original (significand, exponent), provided neither step renormalizes
\* or is clamped to a bound.
C17_Original ==
    (/\ is_focused
     /\ Within(bounds, value)
     /\ OnDigit(cursor, Shown)
     /\ IncValue.exponent = value.exponent
     /\ Within(bounds, IncValue)
     /\ SelectedPos(UpThenDown.up.cur, Len(UpThenDown.text))
           = SelectedPos(cursor, Len(Shown))
     /\ OnDigit(UpThenDown.up.cur, UpThenDown.text)
     /\ UpThenDown.raw.exponent = IncValue.exponent
     /\ Within(bounds, ExponentialNumber(UpThenDown.raw.significand,
                                         UpThenDown.raw.exponent)))
    => UpThenDown.down.pub = value

\* C18 as stated: every exponent published by increase_val or decrease_val
\* stays within [-12, bounds.upper.exponent].
C18_Original ==
    \A i \in 1..Len(published) :
        /\ published[i].exponent >= -12
        /\ published[i].exponent <= bounds.upper.exponent

\* The event of this step is a keyboard event: a key, a character, or Tab.
KeyboardStep ==
    \/ \E key \in Keys, loc \in KeyLocs : KeyPressed(key, loc)
    \/ \E c \in TypedChars, loc \in KeyLocs : CharacterReceived(c, loc)
    \/ \E takes \in BOOLEAN : TabPressed(takes)

\* C19 as stated: while the box is unfocused a keyboard event publishes
\* nothing and changes neither the value nor the cursor; only a pointer
\* press changes the focus; focused and unfocused are the only states.
C19_Original ==
    [][/\ (~is_focused /\ KeyboardStep)
             => (published' = <<>> /\ value' = value /\ cursor' = cursor)
       /\ (is_focused' # is_focused) => \E loc \in Locs : ButtonPressed(loc)
       /\ is_focused' \in BOOLEAN]_vars

\* C19: while the box is unfocused a keyboard event publishes nothing and
\* changes neither the value nor the cursor; the focus changes only by a
\* pointer press, by Escape in the focused box, or by the window's Tab
\* traversal; focused and unfocused are the only states.
C19_FocusChanges ==
    [][/\ (~is_focused /\ KeyboardStep)
             => (published' = <<>> /\ value' = value /\ cursor' = cursor)
       /\ (is_focused' # is_focused)
             => \/ \E loc \in Locs : ButtonPressed(loc)
                \/ \E loc \in KeyLocs : KeyPressed("Escape", loc)
                \/ \E takes \in BOOLEAN : TabPressed(takes)
       /\ is_focused' \in BOOLEAN]_vars

\* The box is unfocused again after it was focused, its cursor moved and a
\* value published: what the keyboard sends now is ignored.
C19_Witness ==
    /\ ~is_focused
    /\ cursor.tag = "Selection"
    /\ steps = 1
    /\ ENABLED KeyPressed("Up", "text")

\* C20: whatever the stored cursor and whichever buffer the widget reads
\* it against (the displayed text or the significand string, which may be
\* shorter than the stored indices), Cursor::state gives indices no greater
\* than the buffer's length, for an Index and for both ends of a Selection.
C20_CursorClamped ==
    \A s \in {Shown, to_string(value.significand)} :
        /\ CursorState(cursor, Len(s)).start <= Len(s)
        /\ CursorState(cursor, Len(s)).end <= Len(s)

\* The displayed text shrank under a stored selection that now lies
\* beyond its end.
C20_Witness ==
    /\ cursor.tag = "Selection"
    /\ cursor.end > Len(Shown)
    /\ steps >= 1

\* A Left or Right key handled by the focused text input, which moved the
\* stored cursor over the displayed text.
CaretStep ==
    /\ is_focused
    /\ KeyPressed("Left", "text") \/ KeyPressed("Right", "text")
    /\ cursor' # cursor

\* C21: on the displayed text of a value (significand, decimal point, space,
\* prefix and unit) every select_left or select_right step leaves the
\* selection on a numeric grapheme.  The code's two-position jump never
\* looks at the grapheme it lands on: from the last digit of "50.000 nm"
\* select_right lands on the prefix.
C21_Original ==
    [][CaretStep =>
          /\ cursor'.tag = "Selection"
          /\ is_numeric(Shown[Min(cursor'.start, cursor'.end) + 1])]_vars

\* ------------------------------------------------------- cursor claims

\* The view of the stored cursor on the current buffer.
View == CursorState(cursor, Len(buffer))

\* C22: select_left from Index(i) with i > 0, when neither the one-position
\* nor the two-position move has room (i = 1, or i = 2 behind a non-numeric
\* grapheme), is a no-op that ends as Index(i).  The code stores the
\* tentative Selection{i-1, i} before it re-evaluates and never takes it
\* back.
C22_Original ==
    [][(/\ SelectLeft
        /\ View.tag = "Index"
        /\ \/ View.start = 1
           \/ View.start = 2 /\ ~is_numeric(buffer[1]))
       => CursorState(cursor', Len(buffer)) = Index(View.start)]_vars

\* C23: select_left from Index(0) is a no-op; from Index(i) with i > 0 it
\* forms the selection [i-1, i) and re-evaluates: behind a numeric grapheme
\* the selection moves one position left, behind a non-numeric grapheme it
\* moves two positions left when two positions remain.
C23_SelectLeftFromIndex ==
    [][(SelectLeft /\ View.tag = "Index") =>
          LET i == View.start
          IN /\ i = 0 => cursor' = cursor
             /\ (i > 1 /\ is_numeric(buffer[i - 1]))
                    => cursor' = Selection(i - 2, i - 1)
             /\ (i > 2 /\ ~is_numeric(buffer[i - 1]))
                    => cursor' = Selection(i - 3, i - 2)]_vars

\* select_left has gone two positions left from an Index behind a
\* non-numeric grapheme: Index(8) at the end of "0.000  V" became [5, 6).
C23_Witness ==
    /\ buffer = Display(ExponentialNumber(0, 0), <<"V">>)
    /\ cursor = Selection(5, 6)

\* C24: select_right mirrors select_left: a one-grapheme selection [s, e)
\* moves one position right when the grapheme at index e exists and is
\* numeric, two positions right when that grapheme is non-numeric and
\* e + 2 <= length, and stays otherwise.  The code takes the two-position
\* move only when e < length - 2.  Stated of the call in every state, since
\* a call that moves nothing is no step of the behaviour.
C24_Original ==
    (View.tag = "Selection" /\ View.end = View.start + 1)
       => LET s == View.start
              e == View.end
              exists == e < Len(buffer)
          IN CursorState(select_right(cursor, buffer), Len(buffer)) =
                IF exists /\ is_numeric(buffer[e + 1])
                THEN Selection(s + 1, e + 1)
                ELSE IF exists /\ e + 2 <= Len(buffer)
                     THEN Selection(s + 2, e + 2)
                     ELSE View

\* C30: select_left and select_right complete for every buffer and every
\* cursor state, the empty buffer and a one-grapheme buffer included,
\* without unbounded recursion and without index underflow.  select_right on
\* the empty buffer computes 0 - 1 in usize and does not return.
C30_Original ==
    [][(SelectLeft \/ SelectRight) => pc' = "loop"]_vars

\* ------------------------------------------------ step claims, continued

\* The significand a digit step computes before any renormalization.
IncRaw == value.significand + get_step(SelectedPos(cursor, Len(Shown)), Shown)

DecRaw == value.significand - get_step(SelectedPos(cursor, Len(Shown)), Shown)

\* A stepped significand s with 0 < |s| < 1, of either sign.
Fractional(s) == 0 < Abs(s) /\ Abs(s) < One

\* A published value that is no clamped bound and not zero has a
\* significand of magnitude in [1, 1000).
Normalized(v) ==
    (v # bounds.lower /\ v # bounds.upper /\ v.significand # 0)
        => (One <= Abs(v.significand) /\ Abs(v.significand) < Thousand)

\* C25: in increase_val and in decrease_val alike, a stepped significand s
\* with 0 < |s| < 1 at an exponent above -12 is published as s * 1000 with
\* the exponent lowered by 3, so that every published non-zero significand
\* that is no clamped bound has magnitude in [1, 1000).  decrease_val
\* rescales only a positive s, and not at exponent -9.
C25_Original ==
    [][/\ (/\ IncreaseStep
           /\ OnDigit(cursor, Shown)
           /\ Fractional(IncRaw)
           /\ value.exponent > -12
           /\ Within(bounds, IncValue))
          => /\ published' =
                   <<ExponentialNumber(IncRaw * 1000, value.exponent - 3)>>
             /\ Normalized(published'[1])
       /\ (/\ DecreaseStep
           /\ OnDigit(cursor, Shown)
           /\ Fractional(DecRaw)
           /\ value.exponent > -12
           /\ Within(bounds, DecValue))
          => /\ published' =
                   <<ExponentialNumber(DecRaw * 1000, value.exponent - 3)>>
             /\ Normalized(published'[1])]_vars

\* The significand part of a displayed text: what stands before the first
\* space.
SigText(shown) ==
    LET spaces == {i \in 1..Len(shown) : shown[i] = " "}
    IN SubSeq(shown, 1, (CHOOSE i \in spaces : \A j \in spaces : i <= j) - 1)

\* The text sig with the digit at position pos raised by one.
Bump(sig, pos) ==
    [sig EXCEPT ![pos + 1] = DigitChars[DigitVal(sig[pos + 1]) + 2]]

\* C26: get_step(pos, buffer) on a digit is that digit's place value in the
\* displayed significand: 10^(k-1-pos) inside the k-character integer part
\* and 10^(k-pos) after the decimal point.  Raising the digit by one
\* therefore changes the magnitude of the displayed number by exactly the
\* step, and the leftmost digit has the largest step.
C26_PlaceValue ==
    LET shown == Shown
        sig == SigText(shown)
        k == IntLen(shown)
        shownValue == Abs(Parse(sig).val)
        step == [pos \in 0..(Len(sig) - 1) |-> get_step(pos, shown)]
        digits == {pos \in 0..(Len(sig) - 1) : IsDigit(sig[pos + 1])}
    IN \A pos \in digits :
          /\ pos < k => step[pos] = One * Pow10(k - 1 - pos)
          /\ pos > k => step[pos] * Pow10(pos - k) = One
          /\ DigitVal(sig[pos + 1]) < 9 =>
                Abs(Parse(Bump(sig, pos)).val) - shownValue = step[pos]
          /\ \A other \in digits : pos < other => step[pos] > step[other]

\* The size box went from 50 nm to 60 nm by one increase on its tens digit.
C26_Witness ==
    /\ bounds = SizeBox.bounds
    /\ steps = 1
    /\ cursor = Selection(0, 1)
    /\ value = ExponentialNumber(60 * One, -9)
    /\ published = <<value>>

\* The value with its exponent moved by d and the significand kept.
Shifted(d) == ExponentialNumber(value.significand, value.exponent + d)

\* C27 as stated: with a non-numeric grapheme selected, increase_val and
\* decrease_val publish the value with the exponent changed by exactly +3
\* and -3 whenever that value lies within the bounds, and bounds.upper and
\* bounds.lower when it does not.
C27_Original ==
    [][/\ (IncreaseStep /\ ~OnDigit(cursor, Shown))
          => published' = <<IF Within(bounds, Shifted(3))
                            THEN Shifted(3) ELSE bounds.upper>>
       /\ (DecreaseStep /\ ~OnDigit(cursor, Shown))
          => published' = <<IF Within(bounds, Shifted(-3))
                            THEN Shifted(-3) ELSE bounds.lower>>]_vars

\* C27, amended: with a non-numeric grapheme selected, increase_val and
\* decrease_val publish bounds.upper and bounds.lower when the value with
\* the exponent changed by +3 and -3 lies outside the bounds; when it lies
\* within them they publish it, except that an exponent above
\* bounds.upper.exponent is replaced by bounds.upper.exponent on an increase
\* and an exponent below -12 by -12 on a decrease.
C27_ExponentStep ==
    [][/\ (IncreaseStep /\ ~OnDigit(cursor, Shown))
          => published' =
                <<IF ~Within(bounds, Shifted(3)) THEN bounds.upper
                  ELSE IF value.exponent + 3 > bounds.upper.exponent
                       THEN ExponentialNumber(value.significand,
                                              bounds.upper.exponent)
                       ELSE Shifted(3)>>
       /\ (DecreaseStep /\ ~OnDigit(cursor, Shown))
          => published' =
                <<IF ~Within(bounds, Shifted(-3)) THEN bounds.lower
                  ELSE IF value.exponent - 3 < -12
                       THEN ExponentialNumber(value.significand, -12)
                       ELSE Shifted(-3)>>]_vars

\* The x offset box went from 0 nm to 0 um by one increase with the prefix
\* selected.
C27_Witness ==
    /\ bounds = XOffsetBox.bounds
    /\ steps = 1
    /\ cursor = Selection(6, 7)
    /\ value = ExponentialNumber(0, -6)
    /\ published = <<value>>

\* ------------------------------------------------ queue claims, continued

\* C28: every task AddToQueue creates has at least one image, so the
\* content()[0] PlayPressed submits exists for every task of the list, also
\* when the start voltage equals the stop voltage or the step is zero.  With
\* start = stop the code computes no image at all.
C28_Original ==
    \A i \in 1..Len(tasks) : Len(tasks[i].content) >= 1

\* C29: a Failed task is never moved to Running: no step takes a task from
\* Failed to Running, and a PlayPressed while current_task points at a
\* Failed task changes nothing and submits nothing.
C29_FailedNeverRuns ==
    [][/\ \A i \in 1..Len(tasks) :
             tasks[i].state.tag = "Failed" => tasks'[i].state.tag # "Running"
       /\ (/\ PlayPressed
           /\ current_task # {}
           /\ TaskAt(Unwrap(current_task)).state.tag = "Failed")
          => UNCHANGED vars]_vars

\* StopPressed on the only task left current_task on it, Failed, and the
\* event loop is ready for PlayPressed.
C29_Witness ==
    /\ pc = "loop"
    /\ Len(tasks) = 1
    /\ current_task = {0}
    /\ tasks[1].state = Failed(InterruptedByUser)
    /\ tasks[1].content # <<>>
    /\ ENABLED PlayPressed

====
